---- MODULE Spec2Model ----
(***************************************************************************)
(* Model of the `levels` cog (src/main.py): the two SQLite tables, the     *)
(* in-memory cooldown cache, the configuration dictionary, the coroutines  *)
(* that mutate points (on_message, voice_exp_task, /xp add, /xp remove,    *)
(* /xp set, /xp-set-activity) and the detached update_rewards tasks.       *)
(* A coroutine is cut at its awaits: every action below is the code        *)
(* between two awaits of one coroutine, so actions of different            *)
(* coroutines interleave exactly where the event loop may switch.          *)
(* One guild is modelled; every configured role exists in the guild.       *)
(***************************************************************************)
EXTENDS Integers, Sequences, FiniteSets, TLC

\* ---------------------------------------------------------------- universe
Users == {"u1", "u2"}
Roles == {"A", "B"}
TextChannels == {"general", "spam"}
VoiceChannel == "voice"
Administrators == {"u1"}
Targets == {"u2"}
NoChannel == "none"
NoRole == "none"
NoUser == "none"

\* bounds of the model
MaxOps == 2
MaxTime == 2
MaxHandlers == 2
MaxTasks == 2
MaxRewardLevel == 2
MaxProbeExp == 700
MaxProbeLevel == 12

\* program constants
LevelBase == 75
NoTime == -1

Amounts == {75, 300}
CooldownSeconds == 2

HandlerIds == 1..MaxHandlers
TaskIds == 1..MaxTasks

VARIABLES
    db_ready,            \* self.db_ready
    config,              \* self.config
    message_cooldowns,   \* self.message_cooldowns : user -> time of last rewarded message
    user_levels,         \* table user_levels : user -> sequence of rows (no UNIQUE constraint)
    user_rewards,        \* table user_rewards : <<user, level, role>> -> number of rows
    member_roles,        \* member.roles of every member
    voice_task_running,  \* the tasks.loop voice_exp_task is scheduled
    now,                 \* wall clock, seconds
    handlers,            \* event-handler / command coroutines in flight
    tasks,               \* detached update_rewards tasks
    announced,           \* messages posted to the level channel
    returned,            \* the coroutine that returned last, and how
    ops,                 \* number of events delivered so far
    probe,               \* arguments and results of a direct call of the level formula
    earned               \* history: user -> arrival times of the messages that earned points

vars == <<db_ready, config, message_cooldowns, user_levels, user_rewards, member_roles,
          voice_task_running, now, handlers, tasks, announced, returned, ops, probe, earned>>

\* ---------------------------------------------------------------- level formula
Max(a, b) == IF a >= b THEN a ELSE b

\* int(math.sqrt(n / d)) for integers n >= 0, d > 0: the largest k with k*k <= n/d
\* (the floating-point square root is exact in the range modelled)
IntSqrtOfQuotient(n, d) ==
    CHOOSE k \in 0..n : d * k * k <= n /\ n < d * (k + 1) * (k + 1)

\* variants of calculate_level: the boundary compared with <=, the guard inverted
calculate_level_le(exp) ==
    IF exp <= LevelBase THEN 0 ELSE IntSqrtOfQuotient(exp, LevelBase)

calculate_level_inverted(exp) ==
    IF exp > LevelBase THEN 0 ELSE IntSqrtOfQuotient(exp, LevelBase)

calculate_level(exp) ==
    IF exp < LevelBase THEN 0 ELSE IntSqrtOfQuotient(exp, LevelBase)

calculate_exp_for_level(level) == LevelBase * level * level

calculate_exp_from_activity(messages, voice_minutes) ==
    (messages * config.exp_per_message) + (voice_minutes * config.exp_per_voice_minute)

\* ---------------------------------------------------------------- configuration
\* level_rewards is a dict: a sequence of (key, role) items in insertion order,
\* the keys being the strings str(niveau)
LevelKey == <<"1", "2", "3", "4", "5", "6", "7", "8", "9">>
RewardLevels == 1..MaxRewardLevel

str(level) == IF level \in 1..Len(LevelKey) THEN LevelKey[level] ELSE "0"
int(key) == CHOOSE n \in 1..Len(LevelKey) : LevelKey[n] = key

\* a key int() raises ValueError on; only a hand-edited configuration file holds one
BadKey == "abc"
IsNumeric(key) == \E n \in 1..Len(LevelKey) : LevelKey[n] = key

DictKeys(d) == {d[k].key : k \in 1..Len(d)}
DictGet(d, key) ==
    IF key \in DictKeys(d)
    THEN d[CHOOSE k \in 1..Len(d) : d[k].key = key].role
    ELSE NoRole
DictSet(d, key, role) ==
    IF key \in DictKeys(d)
    THEN [k \in 1..Len(d) |-> IF d[k].key = key THEN [key |-> key, role |-> role] ELSE d[k]]
    ELSE Append(d, [key |-> key, role |-> role])
DictDel(d, key) == SelectSeq(d, LAMBDA item : item.key # key)

\* every dict with keys among str(1..MaxRewardLevel), in every insertion order
RECURSIVE DictsOver(_)
DictsOver(keys) ==
    {<<>>} \cup
    UNION {{<<[key |-> k, role |-> r]>> \o d : d \in DictsOver(keys \ {k})} :
           <<k, r>> \in keys \X Roles}
AllLevelRewards == DictsOver({str(l) : l \in RewardLevels})
DistinctRoles(d) == \A j, k \in 1..Len(d) : d[j].role = d[k].role => j = k

DefaultConfig ==
    [level_rewards |-> <<>>,
     remove_previous_rewards |-> TRUE,
     blacklisted_channels |-> {},
     message_cooldown |-> CooldownSeconds,
     exp_per_message |-> 75,
     exp_per_voice_minute |-> 75,
     level_channel_id |-> NoChannel,
     role_multipliers |-> <<>>,
     admin_roles |-> {},
     level_manager_roles |-> {},
     rewards_messages |-> {},
     reward_messages |-> {}]

\* ---------------------------------------------------------------- tables
NewRow ==
    [exp |-> 0, level |-> 0, total_messages |-> 0, voice_time |-> 0, welcome |-> 0,
     last_message_time |-> NoTime]

\* the dict get_user_data returns
UserData(row) ==
    [exp |-> row.exp, level |-> row.level, total_messages |-> row.total_messages,
     voice_time |-> row.voice_time, welcome |-> row.welcome]

\* ExpGainType.get_update_sql / get_update_params
get_update_sql(gain_type, row, new_exp, new_level) ==
    IF gain_type = "voice"
    THEN [row EXCEPT !.exp = new_exp, !.level = new_level, !.voice_time = @ + 1]
    ELSE IF gain_type = "welcome"
    THEN [row EXCEPT !.exp = new_exp, !.level = new_level, !.welcome = @ + 1]
    ELSE [row EXCEPT !.exp = new_exp, !.level = new_level, !.total_messages = @ + 1,
                     !.last_message_time = now]

NoRewards == [k \in Users \X (0..MaxRewardLevel) \X Roles |-> 0]

\* ---------------------------------------------------------------- coroutines
NoData == UserData(NewRow)

IdleHandler ==
    [op |-> "none", pc |-> "idle", user |-> NoUser, chan |-> NoChannel,
     amount |-> 0, messages |-> {}, temps_vocal |-> {}, time |-> 0, phase |-> "none",
     data |-> NoData, old_level |-> 0, new_level |-> 0, wrote |-> FALSE,
     spawned |-> 0, late |-> FALSE]

IdleTask ==
    [pc |-> "idle", user |-> NoUser, level |-> 0, roles_to_add |-> <<>>,
     roles_to_remove |-> <<>>, inserts |-> <<>>, deletes |-> <<>>,
     old_level |-> 0]      \* history: the level the creating operation had read

Free(i) == handlers[i].pc = "idle"
\* a new coroutine takes the lowest free slot
Lowest(i) == Free(i) /\ \A j \in HandlerIds : j < i => ~Free(j)

\* the coroutine has returned: what it was and how it ended
NoReturn == [op |-> "none", user |-> NoUser, spawned |-> 0, outcome |-> "none"]
Returned(h, outcome) ==
    [op |-> h.op, user |-> h.user, spawned |-> h.spawned, outcome |-> outcome]

Started(op, u, amount) ==
    [IdleHandler EXCEPT !.op = op, !.pc = "select", !.user = u, !.amount = amount]

TaskFree(t) == tasks[t].pc = "idle"
FreeTasks == {t \in TaskIds : TaskFree(t)}
\* asyncio.create_task(self.update_rewards(user, level)), n times, by an operation
\* that had read old_level
RECURSIVE Spawn(_, _, _, _, _)
Spawn(ts, u, level, old_level, n) ==
    IF n = 0 THEN ts
    ELSE LET t == CHOOSE x \in TaskIds :
                      /\ ts[x].pc = "idle"
                      /\ \A y \in TaskIds : y < x => ts[y].pc # "idle"
         IN Spawn([ts EXCEPT ![t] = [IdleTask EXCEPT !.pc = "start", !.user = u,
                                                     !.level = level,
                                                     !.old_level = old_level]],
                  u, level, old_level, n - 1)

\* ---------------------------------------------------------------- helpers of the cog
\* a discord role id is an int; role_multiplier_set stores it under str(role.id)
RoleId(r) == <<"int", r>>
RoleIdStr(r) == <<"str", r>>

\* multipliers are kept in hundredths: 1.0 is 100
RECURSIVE BonusOf(_, _)
BonusOf(roles, role_multipliers) ==
    IF roles = {} THEN 0
    ELSE LET r == CHOOSE x \in roles : TRUE
         IN (IF RoleId(r) \in DOMAIN role_multipliers
             THEN role_multipliers[RoleId(r)] ELSE 0)
            + BonusOf(roles \ {r}, role_multipliers)

get_multiplier(member) ==
    100 + BonusOf(member_roles[member], config.role_multipliers)

is_admin(user) ==
    \/ user \in Administrators
    \/ member_roles[user] \cap config.admin_roles # {}

\* ---------------------------------------------------------------- coroutine steps
\* the result of one step of coroutine i: it goes on as h, or it returns
Continue(i, h) ==
    /\ handlers' = [handlers EXCEPT ![i] = h]
    /\ UNCHANGED returned
Return(i, h, outcome) ==
    /\ handlers' = [handlers EXCEPT ![i] = IdleHandler]
    /\ returned' = Returned(h, outcome)
Goes(i, h, outcome) ==
    IF outcome = "go" THEN Continue(i, h) ELSE Return(i, h, outcome)

\* ---------------------------------------------------------------- on_message
\* lines 596-622: the checks and the computation of final_exp, up to the first await
\* variant of the checks without the blacklist test of lines 605-608
on_message_checks_unlisted(u, c) ==
    IF ~db_ready THEN "unavailable"
    ELSE IF message_cooldowns[u] # NoTime
            /\ now - message_cooldowns[u] < config.message_cooldown
    THEN "cooldown"
    ELSE "go"

on_message_checks(u, c) ==
    IF ~db_ready THEN "unavailable"
    ELSE IF c \in config.blacklisted_channels THEN "blacklisted"
    ELSE IF message_cooldowns[u] # NoTime
            /\ now - message_cooldowns[u] < config.message_cooldown
    THEN "cooldown"
    ELSE "go"

\* history: a message of u that arrived less than message_cooldown seconds ago has
\* already earned points
InCooldown(u) ==
    \E k \in 1..Len(earned[u]) : now - earned[u][k] < config.message_cooldown

\* update_user_exp lines 241-242: with the store unavailable it returns (0, 0, 0) at once,
\* else it awaits get_user_data
update_user_exp_entry == IF db_ready THEN "select" ELSE "finish"

\* variant of on_message without the db_ready checks of lines 602 and 241
on_message_unguarded(i, u, c) ==
    /\ Lowest(i) /\ ops < MaxOps
    /\ ops' = ops + 1
    /\ LET final_exp == (config.exp_per_message * get_multiplier(u)) \div 100
           h == [IdleHandler EXCEPT !.op = "message", !.pc = "select", !.user = u,
                                    !.chan = c, !.time = now, !.amount = final_exp,
                                    !.late = InCooldown(u)]
       IN Goes(i, h, IF c \in config.blacklisted_channels THEN "blacklisted" ELSE "go")
    /\ UNCHANGED <<db_ready, config, message_cooldowns, user_levels, user_rewards,
                   member_roles, voice_task_running, now, tasks, announced, probe, earned>>

on_message(i, u, c) ==
    /\ Lowest(i) /\ ops < MaxOps
    /\ ops' = ops + 1
    /\ LET final_exp == (config.exp_per_message * get_multiplier(u)) \div 100
           h == [IdleHandler EXCEPT !.op = "message", !.pc = update_user_exp_entry, !.user = u,
                                    !.chan = c, !.time = now, !.amount = final_exp,
                                    !.late = InCooldown(u)]
       IN Goes(i, h, on_message_checks(u, c))
    /\ UNCHANGED <<db_ready, config, message_cooldowns, user_levels, user_rewards,
                   member_roles, voice_task_running, now, tasks, announced, probe, earned>>

\* ---------------------------------------------------------------- voice_exp_task
\* one iteration of the loop; `active` is the list active_members of the voice channel.
\* Line 663 passes from_voice=True, a keyword update_user_exp does not take: the call
\* raises TypeError before update_user_exp runs, and tasks.loop stops on it.
voice_exp_outcome(active) ==
    IF ~db_ready THEN "unavailable"
    ELSE IF VoiceChannel \in config.blacklisted_channels THEN "blacklisted"
    ELSE IF Cardinality(active) < 2 THEN "skipped"
    ELSE "TypeError"

\* the member the tick found alone in the channel, if any
Alone(active) == IF Cardinality(active) = 1 THEN CHOOSE m \in active : TRUE ELSE NoUser

\* variant of voice_exp_task: a tick that credits every member it finds, however few
voice_exp_task_crediting(active) ==
    /\ voice_task_running
    /\ UNCHANGED voice_task_running
    /\ returned' = [op |-> "voice", user |-> Alone(active), spawned |-> 0, outcome |-> "ok"]
    /\ user_levels' =
            [u \in Users |->
                IF u \in active /\ user_levels[u] # <<>>
                THEN [k \in 1..Len(user_levels[u]) |->
                        [user_levels[u][k] EXCEPT
                            !.exp = @ + (config.exp_per_voice_minute * get_multiplier(u))
                                            \div 100,
                            !.voice_time = @ + 1]]
                ELSE user_levels[u]]
    /\ UNCHANGED <<db_ready, config, message_cooldowns, user_rewards,
                   member_roles, now, handlers, tasks, announced, ops, probe, earned>>

voice_exp_task(active) ==
    /\ voice_task_running
    /\ voice_task_running' = (voice_exp_outcome(active) # "TypeError")
    /\ returned' = [op |-> "voice", user |-> Alone(active), spawned |-> 0,
                    outcome |-> voice_exp_outcome(active)]
    /\ UNCHANGED <<db_ready, config, message_cooldowns, user_levels, user_rewards,
                   member_roles, now, handlers, tasks, announced, ops, probe, earned>>

\* ---------------------------------------------------------------- commands
Command(i, h, inv, rejected) ==
    /\ Lowest(i) /\ ops < MaxOps
    /\ ops' = ops + 1
    /\ Goes(i, h, IF ~is_admin(inv) THEN "denied"
                  ELSE IF ~db_ready THEN "unavailable"
                  ELSE IF rejected THEN "rejected"
                  ELSE "go")
    /\ UNCHANGED <<db_ready, config, message_cooldowns, user_levels, user_rewards,
                   member_roles, voice_task_running, now, tasks, announced, probe, earned>>

\* lines 701-715
add_exp(i, inv, utilisateur, montant) ==
    Command(i, Started("add", utilisateur, montant), inv, montant <= 0)

\* lines 730-744
remove_exp(i, inv, utilisateur, montant) ==
    Command(i, [Started("remove", utilisateur, montant) EXCEPT !.phase = "check"],
            inv, montant <= 0)

\* lines 770-784
set_exp(i, inv, utilisateur, montant) ==
    Command(i, Started("set", utilisateur, montant), inv, montant < 0)

IntOf(opt) == CHOOSE n \in opt : TRUE

\* lines 816-832. messages and temps_vocal are Optional[int]: {} is None, {n} is n.
\* `messages < 0 or temps_vocal < 0` raises TypeError when it compares None with 0.
set_activity(i, inv, utilisateur, messages, temps_vocal) ==
    /\ Lowest(i) /\ ops < MaxOps
    /\ ops' = ops + 1
    /\ Goes(i, [Started("activity", utilisateur, 0) EXCEPT !.messages = messages,
                                                          !.temps_vocal = temps_vocal],
            IF ~is_admin(inv) THEN "denied"
            ELSE IF ~db_ready THEN "unavailable"
            ELSE IF messages = {} THEN "TypeError"
            ELSE IF IntOf(messages) < 0 THEN "rejected"
            ELSE IF temps_vocal = {} THEN "TypeError"
            ELSE IF IntOf(temps_vocal) < 0 THEN "rejected"
            ELSE "go")
    /\ UNCHANGED <<db_ready, config, message_cooldowns, user_levels, user_rewards,
                   member_roles, voice_task_running, now, tasks, announced, probe, earned>>

\* ---------------------------------------------------------------- level info
\* sorted(level_rewards.keys()): the keys are strings, the digits sort before BadKey
KeyOrder == LevelKey \o <<BadKey>>
SortedKeys(d) == SelectSeq(KeyOrder, LAMBDA key : key \in DictKeys(d))

\* lines 512-519: the first key above current_level; int(level_str) is not guarded
RECURSIVE NextRewardLevel(_, _)
NextRewardLevel(keys, current_level) ==
    IF keys = <<>> THEN "none"
    ELSE IF ~IsNumeric(Head(keys)) THEN "ValueError"
    ELSE IF int(Head(keys)) > current_level THEN Head(keys)
    ELSE NextRewardLevel(Tail(keys), current_level)

\* lines 486-528, once get_user_data has returned: the reply, or the exception
display_level_info(current_level) ==
    IF NextRewardLevel(SortedKeys(config.level_rewards), current_level) = "ValueError"
    THEN "ValueError" ELSE "ok"

\* /level and /niveau, lines 479-484: no is_admin check
level_info(i, inv, utilisateur) ==
    /\ Lowest(i) /\ ops < MaxOps
    /\ ops' = ops + 1
    /\ Goes(i, Started("info", utilisateur, 0), IF ~db_ready THEN "unavailable" ELSE "go")
    /\ UNCHANGED <<db_ready, config, message_cooldowns, user_levels, user_rewards,
                   member_roles, voice_task_running, now, tasks, announced, probe, earned>>

\* ---------------------------------------------------------------- get_user_data
\* what the caller does, without an await, once get_user_data has returned `data`:
\* remove_exp checks the balance (lines 745-747) and enters update_user_exp (line 749),
\* whose first statement is another get_user_data (line 245)
AfterGet(i, h, data) ==
    IF h.op = "info" THEN Return(i, h, display_level_info(data.level))
    ELSE IF h.op = "remove" /\ h.phase = "check"
    THEN IF data.exp < h.amount
         THEN Return(i, h, "rejected")
         ELSE Continue(i, [h EXCEPT !.phase = "update", !.pc = "select"])
    ELSE Continue(i, [h EXCEPT !.data = data, !.pc = "write"])

\* lines 124-139: the SELECT; fetchone() gives the first row of the user
GetUserData(i) ==
    /\ handlers[i].pc = "select"
    /\ LET h == handlers[i]
           rows == user_levels[h.user]
       IN IF rows # <<>> THEN AfterGet(i, h, UserData(rows[1]))
          ELSE Continue(i, [h EXCEPT !.pc = "insert"])
    /\ UNCHANGED <<db_ready, config, message_cooldowns, user_levels, user_rewards,
                   member_roles, voice_task_running, now, tasks, announced, ops, probe, earned>>

\* lines 141-147: the INSERT of a new row, made after the SELECT found none
InsertUser(i) ==
    /\ handlers[i].pc = "insert"
    /\ LET h == handlers[i]
       IN /\ user_levels' = [user_levels EXCEPT ![h.user] = Append(@, NewRow)]
          /\ AfterGet(i, h, NoData)
    /\ UNCHANGED <<db_ready, config, message_cooldowns, user_rewards,
                   member_roles, voice_task_running, now, tasks, announced, ops, probe, earned>>

\* ---------------------------------------------------------------- the UPDATE
\* update_user_exp lines 246-255, with exp_gain the caller's argument. The UPDATE has
\* WHERE guild_id = ? AND user_id = ?: it writes every row of the user
exp_gain(h) == IF h.op = "remove" THEN 0 - h.amount ELSE h.amount

\* variants of update_user_exp: without max(0, ...), with the level left as read
update_user_exp_unclamped(h) ==
    LET new_exp == h.data.exp + exp_gain(h)
        new_level == calculate_level(Max(0, new_exp))
    IN [rows |-> [k \in 1..Len(user_levels[h.user]) |->
                    LET row == user_levels[h.user][k]
                    IN get_update_sql("message", row, new_exp, new_level)],
        old_level |-> h.data.level, new_level |-> new_level]


\* variant: the UPDATE adds the gain to the points the row holds when it is written
update_user_exp_atomic(h) ==
    [rows |-> [k \in 1..Len(user_levels[h.user]) |->
                    LET row == user_levels[h.user][k]
                        new_exp == Max(0, row.exp + exp_gain(h))
                    IN get_update_sql("message", row, new_exp, calculate_level(new_exp))],
     old_level |-> h.data.level,
     new_level |-> calculate_level(Max(0, h.data.exp + exp_gain(h)))]

update_user_exp_stale_level(h) ==
    LET new_exp == Max(0, h.data.exp + exp_gain(h))
        new_level == calculate_level(new_exp)
    IN [rows |-> [k \in 1..Len(user_levels[h.user]) |->
                    LET row == user_levels[h.user][k]
                    IN get_update_sql("message", row, new_exp, h.data.level)],
        old_level |-> h.data.level, new_level |-> new_level]

update_user_exp(h) ==
    LET new_exp == Max(0, h.data.exp + exp_gain(h))
        new_level == calculate_level(new_exp)
    IN [rows |-> [k \in 1..Len(user_levels[h.user]) |->
                    LET row == user_levels[h.user][k]
                    IN get_update_sql("message", row, new_exp, new_level)],
        old_level |-> h.data.level, new_level |-> new_level]

\* set_exp lines 785-794
set_exp_update(h) ==
    LET new_level == calculate_level(h.amount)
    IN [rows |-> [k \in 1..Len(user_levels[h.user]) |->
                    LET row == user_levels[h.user][k]
                    IN [row EXCEPT !.exp = h.amount, !.level = new_level]],
        old_level |-> h.data.level, new_level |-> new_level]

\* set_activity lines 837-859
set_activity_update(h) ==
    LET messages == IF h.messages = {} THEN h.data.total_messages ELSE IntOf(h.messages)
        temps_vocal == IF h.temps_vocal = {} THEN h.data.voice_time ELSE IntOf(h.temps_vocal)
        total_exp == calculate_exp_from_activity(messages, temps_vocal)
        new_level == calculate_level(total_exp)
    IN [rows |-> [k \in 1..Len(user_levels[h.user]) |->
                    LET row == user_levels[h.user][k]
                    IN [row EXCEPT !.exp = total_exp, !.level = new_level, !.total_messages = messages, !.voice_time = temps_vocal]],
        old_level |-> h.data.level, new_level |-> new_level]

WriteStep(i) ==
    /\ handlers[i].pc = "write"
    /\ LET h == handlers[i]
           w == IF h.op = "set" THEN set_exp_update(h)
                ELSE IF h.op = "activity" THEN set_activity_update(h)
                ELSE update_user_exp(h)
       IN /\ user_levels' = [user_levels EXCEPT ![h.user] = w.rows]
          /\ Continue(i, [h EXCEPT !.old_level = w.old_level, !.new_level = w.new_level,
                                   !.wrote = TRUE,
                                   !.pc = IF h.op = "activity" THEN "clean" ELSE "finish"])
          /\ earned' = IF h.op = "message"
                       THEN [earned EXCEPT ![h.user] = Append(@, h.time)]
                       ELSE earned
    /\ UNCHANGED <<db_ready, config, message_cooldowns, user_rewards,
                   member_roles, voice_task_running, now, tasks, announced, ops, probe>>

\* set_activity lines 861-864: DELETE FROM user_rewards WHERE guild_id = ? AND user_id = ?
CleanRewards(i) ==
    /\ handlers[i].pc = "clean"
    /\ LET h == handlers[i]
       IN /\ user_rewards' = [k \in DOMAIN user_rewards |->
                                 IF k[1] = h.user THEN 0 ELSE user_rewards[k]]
          /\ Return(i, h, "ok")
    /\ UNCHANGED <<db_ready, config, message_cooldowns, user_levels,
                   member_roles, voice_task_running, now, tasks, announced, ops, probe, earned>>

\* ---------------------------------------------------------------- after the UPDATE
\* how many update_rewards tasks the coroutine creates once its UPDATE is committed:
\* update_user_exp lines 258-259, remove_exp lines 752-754, set_exp line 797

\* variant of Spawns: a task for every mutation, the level changed or not
Spawns_always(h) == 1

Spawns(h) ==
    IF h.op = "set" THEN 1
    ELSE (IF h.new_level # h.old_level THEN 1 ELSE 0)
         + (IF h.op = "remove" /\ h.new_level < h.old_level THEN 1 ELSE 0)

FinishStep(i) ==
    /\ handlers[i].pc = "finish"
    /\ LET h == handlers[i]
           n == Spawns(h)
       IN /\ Cardinality(FreeTasks) >= n
          /\ tasks' = Spawn(tasks, h.user, h.new_level, h.old_level, n)
          /\ Return(i, [h EXCEPT !.spawned = n], "ok")
          /\ message_cooldowns' =
                IF h.op = "message"
                THEN [message_cooldowns EXCEPT ![h.user] = h.time]   \* line 628
                ELSE message_cooldowns
    /\ UNCHANGED <<db_ready, config, user_levels, user_rewards,
                   member_roles, voice_task_running, now, announced, ops, probe, earned>>

\* ---------------------------------------------------------------- update_rewards
\* lines 376-389: the items of level_rewards; a key int() rejects is skipped (379-383)
RewardItems(level_rewards) ==
    LET numeric == SelectSeq(level_rewards, LAMBDA item : IsNumeric(item.key))
    IN [k \in 1..Len(numeric) |->
            [level |-> int(numeric[k].key), role |-> numeric[k].role]]

\* lines 392-397
TopmostRole(applicable_roles) ==
    IF applicable_roles = <<>> THEN NoRole
    ELSE applicable_roles[CHOOSE k \in 1..Len(applicable_roles) :
            \A j \in 1..Len(applicable_roles) :
                \/ applicable_roles[j].level < applicable_roles[k].level
                \/ (applicable_roles[j].level = applicable_roles[k].level /\ j >= k)].role

\* lines 372-417: the lists roles_to_add and roles_to_remove
RewardLists(level_rewards, remove_previous_rewards, roles, member_level) ==
    LET items == RewardItems(level_rewards)
        applicable_roles == SelectSeq(items, LAMBDA it : it.level <= member_level)
        non_applicable_roles == SelectSeq(items, LAMBDA it : ~(it.level <= member_level))
        topmost_role_id == TopmostRole(applicable_roles)
    IN [roles_to_add |->
            SelectSeq(applicable_roles,
                      LAMBDA it : /\ it.role \notin roles
                                  /\ (~remove_previous_rewards \/ it.role = topmost_role_id)),
        roles_to_remove |->
            SelectSeq(applicable_roles,
                      LAMBDA it : /\ it.role \in roles
                                  /\ remove_previous_rewards /\ it.role # topmost_role_id)
            \o SelectSeq(non_applicable_roles, LAMBDA it : it.role \in roles)]

\* the task's first run, up to the await of aiosqlite.connect (line 422)
TaskCompute(t) ==
    /\ tasks[t].pc = "start"
    /\ LET T == tasks[t]
           lists == RewardLists(config.level_rewards, config.remove_previous_rewards,
                                member_roles[T.user], T.level)
       IN tasks' = [tasks EXCEPT ![t] =
            [T EXCEPT !.roles_to_add = lists.roles_to_add,
                      !.roles_to_remove = lists.roles_to_remove,
                      !.pc = IF db_ready THEN "apply" ELSE "announce"]]
    /\ UNCHANGED <<db_ready, config, message_cooldowns, user_levels, user_rewards,
                   member_roles, voice_task_running, now, handlers, announced, returned, ops, probe, earned>>

\* variant of TaskAdd: a failed safe_add_role ends the run without the roles left
TaskAdd_aborting(t, success) ==
    /\ tasks[t].pc = "apply"
    /\ tasks[t].roles_to_add # <<>>
    /\ LET T == tasks[t]
           it == Head(T.roles_to_add)
       IN /\ member_roles' = IF success
                             THEN [member_roles EXCEPT ![T.user] = @ \cup {it.role}]
                             ELSE member_roles
          /\ tasks' = [tasks EXCEPT ![t] =
                IF success
                THEN [T EXCEPT !.roles_to_add = Tail(@), !.inserts = Append(@, it)]
                ELSE [T EXCEPT !.roles_to_add = <<>>, !.roles_to_remove = <<>>,
                               !.pc = "announce"]]
    /\ UNCHANGED <<db_ready, config, message_cooldowns, user_levels, user_rewards,
                   voice_task_running, now, handlers, announced, returned, ops, probe, earned>>

\* lines 423-434: one turn of the loop over roles_to_add; `success` is what
\* safe_add_role returns
TaskAdd(t, success) ==
    /\ tasks[t].pc = "apply"
    /\ tasks[t].roles_to_add # <<>>
    /\ LET T == tasks[t]
           it == Head(T.roles_to_add)
       IN /\ member_roles' = IF success
                             THEN [member_roles EXCEPT ![T.user] = @ \cup {it.role}]
                             ELSE member_roles
          /\ tasks' = [tasks EXCEPT ![t] =
                [T EXCEPT !.roles_to_add = Tail(@),
                          !.inserts = IF success THEN Append(@, it) ELSE @]]
    /\ UNCHANGED <<db_ready, config, message_cooldowns, user_levels, user_rewards,
                   voice_task_running, now, handlers, announced, returned, ops, probe, earned>>

\* lines 436-445: one turn of the loop over roles_to_remove
TaskRemove(t, success) ==
    /\ tasks[t].pc = "apply"
    /\ tasks[t].roles_to_add = <<>>
    /\ tasks[t].roles_to_remove # <<>>
    /\ LET T == tasks[t]
           it == Head(T.roles_to_remove)
       IN /\ member_roles' = IF success
                             THEN [member_roles EXCEPT ![T.user] = @ \ {it.role}]
                             ELSE member_roles
          /\ tasks' = [tasks EXCEPT ![t] =
                [T EXCEPT !.roles_to_remove = Tail(@),
                          !.deletes = IF success THEN Append(@, it) ELSE @]]
    /\ UNCHANGED <<db_ready, config, message_cooldowns, user_levels, user_rewards,
                   voice_task_running, now, handlers, announced, returned, ops, probe, earned>>

Count(seq, x) == Cardinality({k \in 1..Len(seq) : seq[k] = x})
InSeq(seq, x) == \E k \in 1..Len(seq) : seq[k] = x

\* line 447: the commit of the INSERTs and DELETEs of the run. user_rewards has no
\* unique index on (guild_id, user_id, level_reached, role_id), so INSERT OR IGNORE
\* always inserts.
TaskCommit(t) ==
    /\ tasks[t].pc = "apply"
    /\ tasks[t].roles_to_add = <<>>
    /\ tasks[t].roles_to_remove = <<>>
    /\ LET T == tasks[t]
       IN /\ user_rewards' =
                [k \in DOMAIN user_rewards |->
                    LET it == [level |-> k[2], role |-> k[3]]
                    IN IF k[1] # T.user THEN user_rewards[k]
                       ELSE IF InSeq(T.deletes, it) THEN 0
                       ELSE user_rewards[k] + Count(T.inserts, it)]
          /\ tasks' = [tasks EXCEPT ![t] =
                [T EXCEPT !.pc = "announce", !.inserts = <<>>, !.deletes = <<>>]]
    /\ UNCHANGED <<db_ready, config, message_cooldowns, user_levels,
                   member_roles, voice_task_running, now, handlers, announced, returned, ops, probe, earned>>

\* line 452 and announce_reward, lines 322-361; the run is complete after it.
\* The custom message of the level is looked up under the key 'reward_messages'
\* (line 342); custom tells whether the message posted is the custom one.
TaskAnnounce(t) ==
    /\ tasks[t].pc = "announce"
    /\ LET T == tasks[t]
       IN /\ announced' =
                IF config.level_channel_id = NoChannel THEN announced
                ELSE announced \cup
                        {[user |-> T.user, level |-> T.level,
                          custom |-> str(T.level) \in config.reward_messages]}
          /\ tasks' = [tasks EXCEPT ![t] = IdleTask]
    /\ UNCHANGED <<db_ready, config, message_cooldowns, user_levels, user_rewards,
                   member_roles, voice_task_running, now, handlers, returned, ops, probe, earned>>

\* ---------------------------------------------------------------- configuration commands
\* A command that awaits nothing but its reply is one step: it answers `outcome` and
\* leaves the configuration `cfg`.
Reply(op, inv, outcome, cfg) ==
    /\ ops < MaxOps
    /\ ops' = ops + 1
    /\ returned' = [op |-> op, user |-> inv, spawned |-> 0, outcome |-> outcome]
    /\ config' = cfg
    /\ UNCHANGED <<db_ready, message_cooldowns, user_levels, user_rewards, member_roles,
                   voice_task_running, now, handlers, tasks, announced, probe, earned>>

\* the two checks most commands start with; `rest` is the outcome past them
Gate(inv, rest) ==
    IF ~is_admin(inv) THEN "denied"
    ELSE IF ~db_ready THEN "unavailable"
    ELSE rest

\* lines 882-889: no db_ready check
toggle_remove_previous(inv) ==
    IF ~is_admin(inv) THEN Reply("toggle_remove_previous", inv, "denied", config)
    ELSE Reply("toggle_remove_previous", inv, "ok",
               [config EXCEPT !.remove_previous_rewards = ~@])

\* lines 892-955: no db_ready check; get_user_data (line 943) touches the table only
\* when db_ready, which GetUserData models for the commands that await it
level_debug(inv) ==
    Reply("level_debug", inv, IF ~is_admin(inv) THEN "denied" ELSE "debug", config)

\* lines 530-534 (/leaderboard, /classement, /toplevel): two SELECTs, no write
display_leaderboard(inv) ==
    Reply("leaderboard", inv, IF ~db_ready THEN "unavailable" ELSE "ok", config)

\* the commands that only list a part of the configuration: xp-blacklist-channel list,
\* xp-settings show, xp-role-multiplier list, xp-level-rewards list,
\* xp-rewards-messages list, xp-manager-roles list
ListCommands ==
    {"blacklist_list_channels", "show_xp_settings", "role_multiplier_list",
     "list_level_rewards", "list_rewards_messages", "list_admin_roles"}
list_command(op, inv) == Reply(op, inv, Gate(inv, "ok"), config)

\* lines 987-1004
blacklist_add_channel(inv, channel) ==
    LET outcome == Gate(inv, IF channel \in config.blacklisted_channels
                             THEN "rejected" ELSE "ok")
    IN Reply("blacklist_add_channel", inv, outcome,
             IF outcome = "ok"
             THEN [config EXCEPT !.blacklisted_channels = @ \cup {channel}] ELSE config)

\* lines 1007-1024
blacklist_remove_channel(inv, channel) ==
    LET outcome == Gate(inv, IF channel \notin config.blacklisted_channels
                             THEN "rejected" ELSE "ok")
    IN Reply("blacklist_remove_channel", inv, outcome,
             IF outcome = "ok"
             THEN [config EXCEPT !.blacklisted_channels = @ \ {channel}] ELSE config)

\* lines 1056-1086. The arguments are Optional[int]; a setting that precedes a rejected
\* one is already written when the command answers the rejection.
set_xp_settings(inv, exp_per_message, exp_per_voice_minute, cooldown) ==
    LET c1 == IF exp_per_message # {} /\ IntOf(exp_per_message) >= 0
              THEN [config EXCEPT !.exp_per_message = IntOf(exp_per_message)] ELSE config
        r1 == exp_per_message # {} /\ IntOf(exp_per_message) < 0
        c2 == IF ~r1 /\ exp_per_voice_minute # {} /\ IntOf(exp_per_voice_minute) >= 0
              THEN [c1 EXCEPT !.exp_per_voice_minute = IntOf(exp_per_voice_minute)] ELSE c1
        r2 == r1 \/ (exp_per_voice_minute # {} /\ IntOf(exp_per_voice_minute) < 0)
        c3 == IF ~r2 /\ cooldown # {} /\ IntOf(cooldown) >= 0
              THEN [c2 EXCEPT !.message_cooldown = IntOf(cooldown)] ELSE c2
        r3 == r2 \/ (cooldown # {} /\ IntOf(cooldown) < 0)
        outcome == Gate(inv, IF r3 THEN "rejected" ELSE "ok")
    IN Reply("set_xp_settings", inv, outcome,
             IF outcome \in {"ok", "rejected"} THEN c3 ELSE config)

\* role_multipliers after d[key] = value and after del d[key]
FcnSet(d, key, value) == [k \in DOMAIN d \cup {key} |-> IF k = key THEN value ELSE d[k]]
FcnDel(d, key) == [k \in DOMAIN d \ {key} |-> d[k]]

\* lines 1095-1126; multiplier in hundredths. The key written is str(role.id).
role_multiplier_set(inv, role, multiplier) ==
    LET role_id == RoleIdStr(role)
        outcome == Gate(inv, IF multiplier < 0 THEN "rejected"
                             ELSE IF multiplier = 0
                                     /\ role_id \notin DOMAIN config.role_multipliers
                             THEN "rejected"
                             ELSE "ok")
    IN Reply("role_multiplier_set", inv, outcome,
             IF outcome # "ok" THEN config
             ELSE IF multiplier = 0
             THEN [config EXCEPT !.role_multipliers = FcnDel(@, role_id)]
             ELSE [config EXCEPT !.role_multipliers = FcnSet(@, role_id, multiplier)])

\* lines 1165-1183
set_level_reward(inv, niveau, role) ==
    LET outcome == Gate(inv, IF niveau < 1 THEN "rejected" ELSE "ok")
    IN Reply("set_level_reward", inv, outcome,
             IF outcome = "ok"
             THEN [config EXCEPT !.level_rewards = DictSet(@, str(niveau), role)]
             ELSE config)

\* lines 1187-1205
remove_level_reward(inv, niveau) ==
    LET outcome == Gate(inv, IF str(niveau) \notin DictKeys(config.level_rewards)
                             THEN "rejected" ELSE "ok")
    IN Reply("remove_level_reward", inv, outcome,
             IF outcome = "ok"
             THEN [config EXCEPT !.level_rewards = DictDel(@, str(niveau))]
             ELSE config)

\* lines 1246-1267. message is Optional[str]: {} is None or blank, {"text"} a message.
\* The key written is 'rewards_messages'; del of an absent key raises KeyError.
set_rewards_message(inv, niveau, message) ==
    LET outcome == Gate(inv, IF niveau < 1 THEN "rejected"
                             ELSE IF message = {}
                                     /\ str(niveau) \notin config.rewards_messages
                             THEN "KeyError"
                             ELSE "ok")
    IN Reply("set_rewards_message", inv, outcome,
             IF outcome # "ok" THEN config
             ELSE IF message = {}
             THEN [config EXCEPT !.rewards_messages = @ \ {str(niveau)}]
             ELSE [config EXCEPT !.rewards_messages = @ \cup {str(niveau)}])

\* lines 1298-1325. channel is Optional: {} shows the current channel.
set_rewards_channel(inv, channel) ==
    LET outcome == Gate(inv, IF channel = {} THEN "shown" ELSE "ok")
    IN Reply("set_rewards_channel", inv, outcome,
             IF outcome = "ok"
             THEN [config EXCEPT !.level_channel_id = CHOOSE c \in channel : TRUE]
             ELSE config)

\* lines 1331-1347: the key written is 'level_manager_roles'
add_admin_role(inv, role) ==
    LET outcome == Gate(inv, IF role \in config.level_manager_roles
                             THEN "rejected" ELSE "ok")
    IN Reply("add_admin_role", inv, outcome,
             IF outcome = "ok"
             THEN [config EXCEPT !.level_manager_roles = @ \cup {role}] ELSE config)

\* lines 1351-1370
remove_admin_role(inv, role) ==
    LET outcome == Gate(inv, IF role \notin config.level_manager_roles
                             THEN "rejected" ELSE "ok")
    IN Reply("remove_admin_role", inv, outcome,
             IF outcome = "ok"
             THEN [config EXCEPT !.level_manager_roles = @ \ {role}] ELSE config)

\* ---------------------------------------------------------------- environment
Tick ==
    /\ now < MaxTime
    /\ now' = now + 1
    /\ UNCHANGED <<db_ready, config, message_cooldowns, user_levels, user_rewards,
                   member_roles, voice_task_running, handlers, tasks, announced, returned,
                   ops, probe, earned>>

\* ---------------------------------------------------------------- direct calls
IdleProbe == [kind |-> "none", a |-> 0, b |-> 0, ra |-> 0, rb |-> 0]

\* calculate_level on the two amounts of points the probe holds
ProbeLevels ==
    /\ probe.kind = "points"
    /\ probe' = [probe EXCEPT !.kind = "levels",
                              !.ra = calculate_level(probe.a),
                              !.rb = calculate_level(probe.b)]
    /\ UNCHANGED <<db_ready, config, message_cooldowns, user_levels, user_rewards,
                   member_roles, voice_task_running, now, handlers, tasks, announced,
                   returned, ops, earned>>

\* calculate_level(calculate_exp_for_level(n)) on the level n the probe holds
ProbeRoundTrip ==
    /\ probe.kind = "level"
    /\ probe' = [probe EXCEPT !.kind = "roundtrip",
                              !.ra = calculate_exp_for_level(probe.a),
                              !.rb = calculate_level(calculate_exp_for_level(probe.a))]
    /\ UNCHANGED <<db_ready, config, message_cooldowns, user_levels, user_rewards,
                   member_roles, voice_task_running, now, handlers, tasks, announced,
                   returned, ops, earned>>

\* ---------------------------------------------------------------- specifications
\* a row /xp set 300 leaves on a user who had none
SetRow == [NewRow EXCEPT !.exp = 300, !.level = 2]

\* the cog after cog_load, setup_database having set db_ready to `ready`, on the given
\* table and configuration
InitState(ready, rows, cfg, roles) ==
    /\ db_ready = ready
    /\ voice_task_running = ready       \* lines 45-47: started only when db_ready
    /\ config = cfg
    /\ message_cooldowns = [u \in Users |-> NoTime]
    /\ user_levels = [u \in Users |-> IF u \in Targets THEN rows ELSE <<>>]
    /\ user_rewards = NoRewards
    /\ member_roles = [u \in Users |-> IF u \in Targets THEN roles ELSE {}]
    /\ now = 0
    /\ handlers = [i \in HandlerIds |-> IdleHandler]
    /\ tasks = [t \in TaskIds |-> IdleTask]
    /\ announced = {}
    /\ returned = NoReturn
    /\ ops = 0
    /\ earned = [u \in Users |-> <<>>]

InitCog(rows, cfg, roles) == InitState(TRUE, rows, cfg, roles)

HandlerSteps ==
    \/ \E i \in HandlerIds : GetUserData(i)
    \/ \E i \in HandlerIds : InsertUser(i)
    \/ \E i \in HandlerIds : WriteStep(i)
    \/ \E i \in HandlerIds : FinishStep(i)

\* update_rewards with no reward configured: both lists are empty
IdleTaskSteps ==
    \/ \E t \in TaskIds : TaskCompute(t)
    \/ \E t \in TaskIds : TaskCommit(t)
    \/ \E t \in TaskIds : TaskAnnounce(t)

TaskSteps ==
    \/ \E t \in TaskIds : TaskCompute(t)
    \/ \E t \in TaskIds : TaskAdd(t, TRUE)
    \/ \E t \in TaskIds : TaskRemove(t, TRUE)
    \/ \E t \in TaskIds : TaskCommit(t)
    \/ \E t \in TaskIds : TaskAnnounce(t)

\* Spec: every operation that mutates points, interleaved
Init ==
    \E rows \in {<<>>, <<SetRow>>} :
        /\ InitCog(rows, [DefaultConfig EXCEPT !.blacklisted_channels = {"spam"}], {})
        /\ probe = IdleProbe

Next ==
    \/ \E i \in HandlerIds, u \in Targets, c \in TextChannels : on_message(i, u, c)
    \/ \E active \in SUBSET Users : voice_exp_task(active)
    \/ \E i \in HandlerIds, inv \in Users, u \in Targets, m \in Amounts : add_exp(i, inv, u, m)
    \/ \E i \in HandlerIds, inv \in Users, u \in Targets, m \in Amounts : remove_exp(i, inv, u, m)
    \/ \E i \in HandlerIds, inv \in Users, u \in Targets, m \in Amounts : set_exp(i, inv, u, m)
    \/ \E i \in HandlerIds, inv \in Users, u \in Targets, m \in {{}, {1}}, v \in {{}, {3}} :
            set_activity(i, inv, u, m, v)
    \/ \E i \in HandlerIds : CleanRewards(i)
    \/ HandlerSteps
    \/ IdleTaskSteps

Spec == Init /\ [][Next]_vars

\* SpecMessages: message events and the clock
InitMessages ==
    /\ InitCog(<<>>, [DefaultConfig EXCEPT !.blacklisted_channels = {"spam"}], {})
    /\ probe = IdleProbe

NextMessages ==
    \/ \E i \in HandlerIds, u \in Targets, c \in TextChannels : on_message(i, u, c)
    \/ Tick
    \/ HandlerSteps
    \/ IdleTaskSteps

SpecMessages == InitMessages /\ [][NextMessages]_vars

\* SpecRewards: /xp set and the update_rewards tasks it creates, on every reward
\* configuration /xp-level-rewards set can produce and every set of roles held;
\* every safe_add_role and safe_remove_role call succeeds
InitRewards ==
    \E lr \in AllLevelRewards, rp \in BOOLEAN, roles \in SUBSET Roles :
        /\ InitCog(<<>>, [DefaultConfig EXCEPT !.level_rewards = lr,
                                               !.remove_previous_rewards = rp], roles)
        /\ probe = IdleProbe

NextRewards ==
    \/ \E i \in HandlerIds, inv \in Administrators, u \in Targets, m \in Amounts \cup {0} :
            set_exp(i, inv, u, m)
    \/ HandlerSteps
    \/ TaskSteps

SpecRewards == InitRewards /\ [][NextRewards]_vars

\* SpecRewardsDistinct: the same, every role rewarding one level only
InitRewardsDistinct ==
    \E lr \in {d \in AllLevelRewards : DistinctRoles(d)}, rp \in BOOLEAN,
       roles \in SUBSET Roles :
        /\ InitCog(<<>>, [DefaultConfig EXCEPT !.level_rewards = lr,
                                               !.remove_previous_rewards = rp], roles)
        /\ probe = IdleProbe

SpecRewardsDistinct == InitRewardsDistinct /\ [][NextRewards]_vars

\* SpecFormula: the level formula called on its own
InitFormula ==
    /\ InitCog(<<>>, DefaultConfig, {})
    /\ \/ \E p \in 0..MaxProbeExp, q \in 0..MaxProbeExp :
            /\ p <= q
            /\ probe = [IdleProbe EXCEPT !.kind = "points", !.a = p, !.b = q]
       \/ \E n \in 0..MaxProbeLevel :
            probe = [IdleProbe EXCEPT !.kind = "level", !.a = n]

NextFormula ==
    \/ ProbeLevels
    \/ ProbeRoundTrip

SpecFormula == InitFormula /\ [][NextFormula]_vars

\* SpecCommands: every command of the cog, messages and the voice loop, the store
\* available or not
InitCommands ==
    \E ready \in BOOLEAN, rows \in {<<>>, <<SetRow>>}, roles \in {{}, {"A"}} :
        /\ InitState(ready, rows, [DefaultConfig EXCEPT !.blacklisted_channels = {"spam"}],
                     roles)
        /\ probe = IdleProbe

NextCommands ==
    \/ \E i \in HandlerIds, u \in Targets, c \in TextChannels : on_message(i, u, c)
    \/ \E active \in SUBSET Users : voice_exp_task(active)
    \/ \E i \in HandlerIds, inv \in Users, u \in Targets, m \in Amounts : add_exp(i, inv, u, m)
    \/ \E i \in HandlerIds, inv \in Users, u \in Targets, m \in Amounts : remove_exp(i, inv, u, m)
    \/ \E i \in HandlerIds, inv \in Users, u \in Targets, m \in Amounts : set_exp(i, inv, u, m)
    \/ \E i \in HandlerIds, inv \in Users, u \in Targets, m \in {{}, {1}}, v \in {{}, {3}} :
            set_activity(i, inv, u, m, v)
    \/ \E i \in HandlerIds, inv \in Users, u \in Targets : level_info(i, inv, u)
    \/ \E inv \in Users : toggle_remove_previous(inv)
    \/ \E inv \in Users : level_debug(inv)
    \/ \E inv \in Users : display_leaderboard(inv)
    \/ \E inv \in Users, op \in ListCommands : list_command(op, inv)
    \/ \E inv \in Users, c \in TextChannels : blacklist_add_channel(inv, c)
    \/ \E inv \in Users, c \in TextChannels : blacklist_remove_channel(inv, c)
    \/ \E inv \in Users, e \in {{}, {75}}, v \in {{}, {-1}}, c \in {{}, {0}} :
            set_xp_settings(inv, e, v, c)
    \/ \E inv \in Users, r \in Roles, m \in {0, 50} : role_multiplier_set(inv, r, m)
    \/ \E inv \in Users, n \in 0..MaxRewardLevel, r \in Roles : set_level_reward(inv, n, r)
    \/ \E inv \in Users, n \in RewardLevels : remove_level_reward(inv, n)
    \/ \E inv \in Users, n \in RewardLevels, m \in {{}, {"text"}} :
            set_rewards_message(inv, n, m)
    \/ \E inv \in Users, c \in {{}, {"general"}} : set_rewards_channel(inv, c)
    \/ \E inv \in Users, r \in Roles : add_admin_role(inv, r)
    \/ \E inv \in Users, r \in Roles : remove_admin_role(inv, r)
    \/ \E i \in HandlerIds : CleanRewards(i)
    \/ HandlerSteps
    \/ TaskSteps

SpecCommands == InitCommands /\ [][NextCommands]_vars

\* SpecAnnounce: /xp-rewards-messages set, /xp set and the update_rewards tasks it
\* creates, the level channel configured
InitAnnounce ==
    \E lr \in {d \in AllLevelRewards : DistinctRoles(d)}, roles \in SUBSET Roles :
        /\ InitCog(<<>>, [DefaultConfig EXCEPT !.level_rewards = lr,
                                               !.level_channel_id = "general"], roles)
        /\ probe = IdleProbe

NextAnnounce ==
    \/ \E inv \in Users, n \in RewardLevels, m \in {{}, {"text"}} :
            set_rewards_message(inv, n, m)
    \/ \E i \in HandlerIds, inv \in Administrators, u \in Targets, m \in Amounts \cup {0} :
            set_exp(i, inv, u, m)
    \/ HandlerSteps
    \/ TaskSteps

SpecAnnounce == InitAnnounce /\ [][NextAnnounce]_vars


\* SpecReruns: /xp set and the update_rewards tasks it creates on every reward
\* configuration and every set of roles held, the level channel configured, so that
\* every completed run leaves its announcement
InitReruns ==
    \E lr \in AllLevelRewards, rp \in BOOLEAN, roles \in SUBSET Roles :
        /\ InitCog(<<>>, [DefaultConfig EXCEPT !.level_rewards = lr,
                                               !.remove_previous_rewards = rp,
                                               !.level_channel_id = "general"], roles)
        /\ probe = IdleProbe

SpecReruns == InitReruns /\ [][NextRewards]_vars

\* SpecRewardsFailing: as SpecRewardsDistinct, every safe_add_role and safe_remove_role
\* call succeeding or failing
NextRewardsFailing ==
    \/ \E i \in HandlerIds, inv \in Administrators, u \in Targets, m \in Amounts \cup {0} :
            set_exp(i, inv, u, m)
    \/ HandlerSteps
    \/ \E t \in TaskIds : TaskCompute(t)
    \/ \E t \in TaskIds, success \in BOOLEAN : TaskAdd(t, success)
    \/ \E t \in TaskIds, success \in BOOLEAN : TaskRemove(t, success)
    \/ \E t \in TaskIds : TaskCommit(t)
    \/ \E t \in TaskIds : TaskAnnounce(t)

SpecRewardsFailing == InitRewardsDistinct /\ [][NextRewardsFailing]_vars

\* SpecBadKey: /level, /xp set and update_rewards on a configuration file whose
\* level_rewards may hold a key that is no number
InitBadKey ==
    \E lr \in DictsOver({"1", BadKey}), rp \in BOOLEAN, roles \in SUBSET Roles :
        /\ InitCog(<<>>, [DefaultConfig EXCEPT !.level_rewards = lr,
                                               !.remove_previous_rewards = rp], roles)
        /\ probe = IdleProbe

NextBadKey ==
    \/ \E i \in HandlerIds, inv \in Users, u \in Targets : level_info(i, inv, u)
    \/ \E i \in HandlerIds, inv \in Administrators, u \in Targets, m \in {0, 75} :
            set_exp(i, inv, u, m)
    \/ HandlerSteps
    \/ TaskSteps

SpecBadKey == InitBadKey /\ [][NextBadKey]_vars


\* ================================================================ claims
ConfiguredRoles == {config.level_rewards[k].role : k \in 1..Len(config.level_rewards)}
\* update_rewards task t completes in this step
Completes(t) == tasks[t].pc = "announce" /\ tasks'[t].pc = "idle"

\* C1: every UserProgress row has level = floor(sqrt(points/75)) when points >= 75
\* and level = 0 when points < 75, in every state the point-mutating operations reach
C1_LevelMatchesPoints ==
    \A u \in Users : \A k \in 1..Len(user_levels[u]) :
        LET points == user_levels[u][k].exp
            level == user_levels[u][k].level
        IN IF points >= 75
           THEN level >= 0 /\ 75 * level * level <= points
                /\ points < 75 * (level + 1) * (level + 1)
           ELSE level = 0

\* a row whose points two operations built, on level 2
C1_Witness ==
    \E u \in Users : /\ user_levels[u] # <<>>
                     /\ user_levels[u][1].exp = 375
                     /\ user_levels[u][1].level = 2

\* C2: when update_rewards completes for target level L with remove_previous_rewards
\* enabled and a reward threshold <= L configured, the member holds exactly one
\* configured reward role, the one of the highest threshold <= L
C2_ExactlyTopRewardHeld ==
    [][\A t \in TaskIds :
        LET L == tasks[t].level
            u == tasks[t].user
            qualifying == {k \in 1..Len(config.level_rewards) :
                                int(config.level_rewards[k].key) <= L}
        IN (Completes(t) /\ config.remove_previous_rewards /\ qualifying # {}) =>
            \E k \in qualifying :
                /\ \A j \in qualifying : int(config.level_rewards[j].key)
                                            <= int(config.level_rewards[k].key)
                /\ member_roles'[u] \cap ConfiguredRoles = {config.level_rewards[k].role}
      ]_vars

\* C3: when update_rewards completes for target level L with remove_previous_rewards
\* disabled, the member holds every configured reward role whose threshold is <= L
C3_AllQualifyingHeld ==
    [][\A t \in TaskIds :
        (Completes(t) /\ ~config.remove_previous_rewards) =>
            \A k \in 1..Len(config.level_rewards) :
                int(config.level_rewards[k].key) <= tasks[t].level
                    => config.level_rewards[k].role \in member_roles'[tasks[t].user]
      ]_vars

\* C4: when update_rewards completes for target level L, the member holds no
\* configured reward role whose threshold is greater than L
C4_NoRoleAboveLevel ==
    [][\A t \in TaskIds :
        Completes(t) =>
            \A k \in 1..Len(config.level_rewards) :
                int(config.level_rewards[k].key) > tasks[t].level
                    => config.level_rewards[k].role \notin member_roles'[tasks[t].user]
      ]_vars

\* C5: a message that arrives less than message_cooldown seconds after an earlier
\* message of the same user that earned points never changes the user's row
C5_CooldownMessageNeverEarns ==
    \A i \in HandlerIds :
        (handlers[i].op = "message" /\ handlers[i].late) => ~handlers[i].wrote

\* C6: on_message in a blacklisted channel returns at once: the tables, the cooldown
\* table and the update_rewards tasks are unchanged and no coroutine stays in flight
C6_BlacklistedMessageChangesNothing ==
    [][\A i \in HandlerIds, u \in Users, c \in TextChannels :
        (c \in config.blacklisted_channels /\ on_message(i, u, c)) =>
            /\ UNCHANGED <<user_levels, user_rewards, message_cooldowns, tasks, handlers>>
            /\ returned'.outcome = "blacklisted"
      ]_vars

\* a message in a blacklisted channel has been handled
C6_Witness == returned.op = "message" /\ returned.outcome = "blacklisted"

\* C7: every UserProgress row has points >= 0
C7_PointsNeverNegative ==
    \A u \in Users : \A k \in 1..Len(user_levels[u]) : user_levels[u][k].exp >= 0

\* /xp remove has taken all the points of a user
C7_Witness ==
    /\ returned.op = "remove" /\ returned.outcome = "ok"
    /\ \E u \in Users : user_levels[u] # <<>> /\ user_levels[u][1].exp = 0

\* C8: an /xp remove whose amount is greater than the user's stored points is rejected:
\* no /xp remove writes the row while its amount exceeds the points stored in it
C8_RemoveAboveBalanceRejected ==
    [][\A i \in HandlerIds :
        (handlers[i].op = "remove" /\ handlers[i].pc = "write"
            /\ handlers'[i].pc = "finish") =>
            handlers[i].amount <= user_levels[handlers[i].user][1].exp
      ]_vars

\* C9: calculate_level(calculate_exp_for_level(n)) = n, with
\* calculate_exp_for_level(n) = 75*n*n
C9_LevelOfExpForLevel ==
    probe.kind = "roundtrip" => (probe.ra = 75 * probe.a * probe.a /\ probe.rb = probe.a)

C9_Witness == probe.kind = "roundtrip" /\ probe.a = 3 /\ probe.rb = 3

\* C10: calculate_level is monotonic non-decreasing: p <= q implies
\* calculate_level(p) <= calculate_level(q)
C10_LevelMonotonic ==
    (probe.kind = "levels" /\ probe.a <= probe.b) => probe.ra <= probe.rb

C10_Witness ==
    probe.kind = "levels" /\ probe.a = 299 /\ probe.b = 300 /\ probe.ra = 1 /\ probe.rb = 2

\* a command answers in this step: an interaction is delivered and is no message event
CommandStep == ops' = ops + 1 /\ returned'.op # "message"

\* C11: while db_ready is false every command answers the unavailable response (or the
\* permission refusal that precedes it) and changes neither the tables nor the
\* configuration
C11_UnavailableCommandsChangeNothing ==
    [][(~db_ready /\ CommandStep) =>
            /\ handlers' = handlers
            /\ returned'.outcome \in {"unavailable", "denied"}
            /\ UNCHANGED <<user_levels, user_rewards, config>>
      ]_vars

\* C12: while db_ready is false no message event and no voice tick changes a row, and
\* no update_rewards task is created: the voice loop is not running, every message
\* handler returns at once and the tables stay as cog_load found them
C12_UnavailableNoAccrual ==
    [][~db_ready =>
            /\ ~voice_task_running
            /\ UNCHANGED <<user_levels, user_rewards, tasks>>
            /\ \A i \in HandlerIds : handlers'[i].op # "message"
      ]_vars

\* a message event has been handled while the store was unavailable
C12_Witness == ~db_ready /\ returned.op = "message" /\ returned.outcome = "unavailable"

\* C13: within one update_rewards run a failed grant or revocation does not end the
\* batch: every step of the run at the role loops takes exactly one role off its lists,
\* the run leaves the loops only with both lists empty, and a failed call changes no
\* role the member holds
C13_RoleFailureDoesNotAbort ==
    [][\A t \in TaskIds :
        (tasks[t].pc = "apply" /\ tasks'[t] # tasks[t]) =>
            LET left == Len(tasks[t].roles_to_add) + Len(tasks[t].roles_to_remove)
                left_after == Len(tasks'[t].roles_to_add) + Len(tasks'[t].roles_to_remove)
                done == Len(tasks[t].inserts) + Len(tasks[t].deletes)
                done_after == Len(tasks'[t].inserts) + Len(tasks'[t].deletes)
            IN IF left = 0 THEN tasks'[t].pc = "announce"
               ELSE /\ tasks'[t].pc = "apply"
                    /\ left_after = left - 1
                    /\ (done_after = done => member_roles' = member_roles)
      ]_vars

\* the grant of A (level 1) failed and B (level 2) was granted and recorded all the same
C13_Witness ==
    \E u \in Targets, t \in TaskIds :
        /\ ~config.remove_previous_rewards
        /\ config.level_rewards = <<[key |-> "1", role |-> "A"], [key |-> "2", role |-> "B"]>>
        /\ tasks[t].pc = "announce" /\ tasks[t].user = u /\ tasks[t].level = 2
        /\ member_roles[u] = {"B"}
        /\ user_rewards[<<u, 2, "B">>] = 1

\* C14: a level_rewards entry whose key is no number is ignored: update_rewards computes
\* the lists it computes without the entry, and the level-info display replies as it
\* does without the entry
C14_BadKeyIgnored ==
    [][/\ \A t \in TaskIds :
            (tasks[t].pc = "start" /\ tasks'[t].pc # "start") =>
                LET lists == RewardLists(DictDel(config.level_rewards, BadKey),
                                         config.remove_previous_rewards,
                                         member_roles[tasks[t].user], tasks[t].level)
                IN /\ tasks'[t].roles_to_add = lists.roles_to_add
                   /\ tasks'[t].roles_to_remove = lists.roles_to_remove
       /\ (returned'.op = "info" /\ returned' # returned) => returned'.outcome = "ok"
      ]_vars

\* the points and the voice minutes of the first row of a member, 0 without a row
PointsOf(rows) == IF rows = <<>> THEN 0 ELSE rows[1].exp
VoiceMinutesOf(rows) == IF rows = <<>> THEN 0 ELSE rows[1].voice_time

\* C15: a voice tick with the store available, on a voice channel that is not
\* blacklisted and has at least two eligible members, adds
\* floor(exp_per_voice_minute * multiplier) points and one voice minute to each of them
C15_VoiceTickCredits ==
    [][\A active \in SUBSET Users :
        (/\ db_ready /\ VoiceChannel \notin config.blacklisted_channels
         /\ Cardinality(active) >= 2
         /\ voice_exp_task(active)) =>
            \A m \in active :
                /\ PointsOf(user_levels'[m]) = PointsOf(user_levels[m])
                        + (config.exp_per_voice_minute * get_multiplier(m)) \div 100
                /\ VoiceMinutesOf(user_levels'[m]) = VoiceMinutesOf(user_levels[m]) + 1
      ]_vars

\* C16: a voice tick changes no row when the voice channel has fewer than two
\* eligible members
C16_LoneMemberNotCredited ==
    [][\A active \in SUBSET Users :
        (Cardinality(active) < 2 /\ voice_exp_task(active)) => UNCHANGED user_levels
      ]_vars

\* a tick has found one member alone in the channel, who has a row, and skipped it
C16_Witness ==
    /\ returned.op = "voice" /\ returned.outcome = "skipped"
    /\ returned.user \in Users /\ user_levels[returned.user] # <<>>

\* the sum of the multipliers that role_multiplier_set has stored for the roles of a
\* set: the command stores the multiplier of a role under str(role.id)
RECURSIVE ConfiguredBonus(_)
ConfiguredBonus(roles) ==
    IF roles = {} THEN 0
    ELSE LET r == CHOOSE x \in roles : TRUE
         IN (IF RoleIdStr(r) \in DOMAIN config.role_multipliers
             THEN config.role_multipliers[RoleIdStr(r)] ELSE 0)
            + ConfiguredBonus(roles \ {r})

\* C17: a message that passes the checks is worth
\* floor(exp_per_message * (1 + the sum of the multipliers configured for the roles
\* its author holds)), so the holder of a role earns the bonus that
\* role_multiplier_set gave the role
C17_MessagePointsUseRoleMultipliers ==
    [][\A i \in HandlerIds, u \in Targets, c \in TextChannels :
        (on_message(i, u, c) /\ on_message_checks(u, c) = "go") =>
            handlers'[i].amount =
                (config.exp_per_message * (100 + ConfiguredBonus(member_roles[u]))) \div 100
      ]_vars

\* C18: a member without the administrator permission is accepted by is_admin
\* exactly while the member holds a role that xp-manager-roles add has put on the
\* list of manager roles and xp-manager-roles remove has not taken off it
C18_ManagerRolesGrantAdmin ==
    \A u \in Users \ Administrators :
        is_admin(u) <=> (member_roles[u] \cap config.level_manager_roles # {})

\* C19: once xp-rewards-messages set has stored a message for a level, the
\* announcement posted for a member who reaches that level is that message
C19_CustomMessageAnnounced ==
    [][\A t \in TaskIds :
        (/\ TaskAnnounce(t)
         /\ config.level_channel_id # NoChannel
         /\ str(tasks[t].level) \in config.rewards_messages) =>
            [user |-> tasks[t].user, level |-> tasks[t].level, custom |-> TRUE]
                \in announced'
      ]_vars

\* C20: the table user_levels holds at most one row for a member, also when several
\* get_user_data calls for a member without a row interleave
C20_OneRowPerMember ==
    \A u \in Users : Len(user_levels[u]) <= 1

\* the operations whose UPDATE is made by update_user_exp
ThroughUpdateUserExp == {"message", "add", "remove"}
\* update_rewards tasks created in this step for user u and level L, not yet run
Created(u, L) ==
    {t \in TaskIds : /\ tasks[t].pc = "idle"
                     /\ tasks'[t].pc = "start"
                     /\ tasks'[t].user = u
                     /\ tasks'[t].level = L}

\* C21: an update_user_exp call that wrote a level above the one it read creates
\* exactly one update_rewards task, for the new level, and returns while the task
\* has not run; a call that wrote the level it read creates none
C21_OneTaskPerLevelUp ==
    [][\A i \in HandlerIds :
        LET h == handlers[i]
        IN (FinishStep(i) /\ h.op \in ThroughUpdateUserExp) =>
            /\ h.new_level > h.old_level =>
                    /\ Cardinality(Created(h.user, h.new_level)) = 1
                    /\ \A t \in TaskIds \ Created(h.user, h.new_level) :
                            tasks'[t] = tasks[t]
                    /\ handlers'[i] = IdleHandler
                    /\ returned'.spawned = 1
            /\ h.new_level = h.old_level => (tasks' = tasks /\ returned'.spawned = 0)
      ]_vars

\* a message has raised its author's level and its handler has returned, the task
\* it created not yet run
C21_Witness ==
    /\ returned.op = "message" /\ returned.outcome = "ok" /\ returned.spawned = 1
    /\ \E t \in TaskIds : tasks[t].pc = "start" /\ tasks[t].user = returned.user
                          /\ tasks[t].level = 1

\* the configured reward roles a member of level L holds under the policy: with
\* remove_previous_rewards the role of the highest threshold <= L only, without it
\* every role of a threshold <= L
ImpliedRoles(L) ==
    LET lr == config.level_rewards
        qualifying == {k \in 1..Len(lr) : int(lr[k].key) <= L}
        top == {k \in qualifying : \A j \in qualifying : int(lr[j].key) <= int(lr[k].key)}
    IN IF config.remove_previous_rewards
       THEN {lr[k].role : k \in top}
       ELSE {lr[k].role : k \in qualifying}

\* no command and no update_rewards task is in flight, and one has run
AllCompleted ==
    /\ ops > 0
    /\ \A i \in HandlerIds : handlers[i].pc = "idle"
    /\ \A t \in TaskIds : tasks[t].pc = "idle"

\* C22: once every update_rewards task created for a member has completed, no role
\* call having failed, the configured reward roles the member holds are those the
\* member's stored level and remove_previous_rewards imply
C22_RolesMatchStoredLevel ==
    AllCompleted =>
        \A u \in Targets :
            user_levels[u] # <<>> =>
                member_roles[u] \cap ConfiguredRoles = ImpliedRoles(user_levels[u][1].level)

\* C23: a lost update on points is reachable. The UPDATE of update_user_exp stores
\* the points read by its SELECT plus the gain, whatever the row holds when it is
\* written, so the gain another call committed in between is overwritten
C23_UpdateWritesFromItsRead ==
    [][\A i \in HandlerIds :
        LET h == handlers[i]
        IN (WriteStep(i) /\ h.op \in ThroughUpdateUserExp) =>
            \A k \in 1..Len(user_levels'[h.user]) :
                user_levels'[h.user][k].exp = Max(0, h.data.exp + exp_gain(h))
      ]_vars

\* two messages of one member have each earned exp_per_message points, both handlers
\* have returned, and the member's only row holds the points of one message
C23_Witness ==
    \E u \in Users :
        /\ Len(earned[u]) = 2
        /\ \A i \in HandlerIds : handlers[i].pc = "idle"
        /\ Len(user_levels[u]) = 1
        /\ user_levels[u][1].exp = config.exp_per_message
        /\ user_levels[u][1].total_messages = 2

\* C24: the table user_rewards holds at most one row per (guild, user, level_reached,
\* role), also when update_rewards tasks of one member interleave
C24_OneRowPerReward ==
    \A k \in DOMAIN user_rewards : user_rewards[k] <= 1

\* C25: when an update_rewards run that has removed a reward role from a member
\* commits, no user_rewards row of that member and that role remains
C25_RevokedRoleLeavesNoRow ==
    [][\A t \in TaskIds :
        TaskCommit(t) =>
            \A k \in 1..Len(tasks[t].deletes) : \A l \in 0..MaxRewardLevel :
                user_rewards'[<<tasks[t].user, l, tasks[t].deletes[k].role>>] = 0
      ]_vars

\* task t is about to run update_rewards for a member whose completed runs were all
\* for the same target level, one at least, and no other task is in flight
SecondRun(t) ==
    /\ tasks[t].pc = "start"
    /\ \E a \in announced : a.user = tasks[t].user
    /\ \A a \in announced : a.user = tasks[t].user => a.level = tasks[t].level
    /\ \A x \in TaskIds \ {t} : tasks[x].pc = "idle"

\* C26: update_rewards run a second time for the same target level, on the same
\* configuration and with no role call failing, finds no role to add and no role to
\* remove
C26_SecondRunChangesNothing ==
    [][\A t \in TaskIds :
        (SecondRun(t) /\ TaskCompute(t)) =>
            /\ tasks'[t].roles_to_add = <<>>
            /\ tasks'[t].roles_to_remove = <<>>
      ]_vars

\* C27: an /xp remove that wrote a level below the one it read creates exactly one
\* update_rewards task for the new level
C27_RemoveReconcilesOnce ==
    [][\A i \in HandlerIds :
        LET h == handlers[i]
        IN (FinishStep(i) /\ h.op = "remove" /\ h.new_level < h.old_level) =>
            Cardinality(Created(h.user, h.new_level)) = 1
      ]_vars

\* C28: an announcement is posted to the level channel only by a run of update_rewards
\* that an operation created after raising the member's level, the store available
C28_AnnouncedOnlyAfterLevelUp ==
    [][\A t \in TaskIds :
        (TaskAnnounce(t) /\ config.level_channel_id # NoChannel) =>
            /\ tasks[t].level > tasks[t].old_level
            /\ db_ready
      ]_vars

\* C29: the UPDATE of an /xp add or an /xp remove leaves total_messages, voice_time,
\* welcome and last_message_time of every row of the member as they were
C29_AdminGainKeepsCounters ==
    [][\A i \in HandlerIds :
        LET h == handlers[i]
        IN (WriteStep(i) /\ h.op \in {"add", "remove"}) =>
            /\ Len(user_levels'[h.user]) = Len(user_levels[h.user])
            /\ \A k \in 1..Len(user_levels[h.user]) :
                LET old == user_levels[h.user][k]
                    new == user_levels'[h.user][k]
                IN /\ new.total_messages = old.total_messages
                   /\ new.voice_time = old.voice_time
                   /\ new.welcome = old.welcome
                   /\ new.last_message_time = old.last_message_time
      ]_vars

\* C30: an xp-set-activity of an administrator, the store available, that gives one of
\* messages and temps_vocal, not negative, and omits the other is accepted, and its
\* UPDATE keeps the omitted counter as read and sets points to
\* messages * exp_per_message + voice minutes * exp_per_voice_minute
C30_SetActivityWithOneArgument ==
    [][/\ \A i \in HandlerIds, inv \in Users, u \in Targets,
             m \in {{}, {1}}, v \in {{}, {3}} :
            (/\ set_activity(i, inv, u, m, v)
             /\ is_admin(inv) /\ db_ready
             /\ (m = {}) # (v = {})) =>
                /\ handlers'[i].op = "activity"
                /\ handlers'[i].pc = "select"
       /\ \A i \in HandlerIds :
            LET h == handlers[i]
            IN (WriteStep(i) /\ h.op = "activity" /\ (h.messages = {}) # (h.temps_vocal = {})) =>
                \A k \in 1..Len(user_levels'[h.user]) :
                    LET new == user_levels'[h.user][k]
                    IN /\ h.messages = {} => new.total_messages = h.data.total_messages
                       /\ h.temps_vocal = {} => new.voice_time = h.data.voice_time
                       /\ new.exp = new.total_messages * config.exp_per_message
                                    + new.voice_time * config.exp_per_voice_minute
      ]_vars

====
